---- MODULE Spec2Model ----
(***************************************************************************)
(* A model of the loop core of pytorch_lightning/loops: the abstract       *)
(* Loop.run() engine (base.py), EvaluationLoop (evaluation_loop.py) and    *)
(* FitLoop (fit_loop.py) with the training-epoch child loop FitLoop owns.  *)
(* Execution is single-threaded: one run() is on the stack at each level,  *)
(* pc[l] is the position of loop l inside Loop.run().                      *)
(***************************************************************************)
EXTENDS Integers, Sequences, FiniteSets, TLC

\* ------------------------------------------------------------------ bounds
\* largest min_epochs / max_epochs constructor argument explored
MaxEpochs == 2
\* largest min_steps / max_steps constructor argument explored (from 1)
MaxSteps == 1
\* largest number of batches of an evaluation dataloader
MaxBatches == 2
\* largest trainer.num_training_batches
MaxTrainBatches == 1
\* the epoch loop is not followed beyond this many iterations
IterCap == 3
\* FitLoop.run() is called at most this many times on one instance
MaxRuns == 2
\* largest number of registered checkpoint callbacks
MaxCallbacks == 2

\* --------------------------------------------------------- program constants
DefaultMaxEpochs == 1000
DefaultMinEpochs == 1

\* ------------------------------------------------------------ Optional[int]
None == << >>
Some(x) == << x >>
Val(o) == o[1]
\* Python truthiness of an Optional[int]: None and 0 are falsy
Truthy(o) == o # None /\ Val(o) # 0

Loops == {"fit", "train", "eval"}
Hooks == {"reset", "on_run_start", "on_advance_start", "advance",
          "on_advance_end", "increment_iteration", "on_run_end"}
NoCalls == [h \in Hooks |-> 0]

EpochArgs == {None} \cup {Some(n) : n \in 0..MaxEpochs}
StepArgs == {None} \cup {Some(n) : n \in 1..MaxSteps}
Batches == {"None", "x"}
Dataloaders == UNION {[1..n -> Batches] : n \in 0..MaxBatches}

VARIABLES
    pc,               \* [Loops -> position inside Loop.run()]
    calls,            \* [Loops -> [Hooks -> calls made by the current run()]]
    result,           \* [Loops -> value the last run() returned, None or Some(v)]
    op,               \* the operation the last step performed; an evaluation of done
                      \* also says whether it logged that a stop request must wait
    done_value,       \* [Loops -> what the last evaluation of done returned, if still current]
    iteration_count,  \* [Loops -> Loop.iteration_count]
    args,             \* the arguments FitLoop was constructed with
    max_epochs, min_epochs, teardown_already_run,   \* FitLoop fields
    checkpoint_check, \* a FitLoop.check_checkpoint_callback call made on its own,
                      \* followed callback by callback: its arguments and what it did
    min_steps, max_steps, global_step, batches_seen, \* training_loop fields
    epoch_output,     \* what training_loop.run() returned to FitLoop.advance
    runs,             \* FitLoop.run() calls so far
    should_stop, num_training_batches, has_trained, running_stage, \* trainer
    effects,          \* collaborator call counts of the FitLoop teardown
    iter_effects,     \* collaborator call counts of the current FitLoop iteration
    observed_step,    \* global_step seen by the last collaborator called under the shim
    run_args,         \* arguments of the current EvaluationLoop.run()
    it_pos,           \* batches the dataloader iterator has handed out
    predictions, dl_max_batches, dataloader_idx, num_dataloaders, outputs, \* EvaluationLoop fields
    step_kwargs,      \* kwargs of the last accelerator step call
    policy,           \* trainer._track_output_for_epoch_end: "append" or "drop"
    result_outputs    \* whether the accelerator's step outputs are ResultCollections

runVars == << pc, calls, result, op, done_value, iteration_count >>
fitVars == << args, max_epochs, min_epochs, teardown_already_run, checkpoint_check >>
trainVars == << min_steps, max_steps, global_step, batches_seen, epoch_output >>
trainerVars == << should_stop, num_training_batches, has_trained, running_stage >>
ghostVars == << effects, iter_effects, observed_step >>
evalVars == << run_args, it_pos, predictions, dl_max_batches, dataloader_idx,
               num_dataloaders, outputs, step_kwargs, policy, result_outputs >>
vars == << runVars, runs, fitVars, trainVars, trainerVars, ghostVars, evalVars >>

NoEffects == [epoch_decrement |-> 0, checkpoint_check |-> 0, checkpoint_callbacks |-> 0,
              on_train_end |-> 0, finalize |-> 0, describe |-> 0,
              accelerator_on_train_end |-> 0, stage_cleared |-> 0]

NoIterEffects == [epoch_metrics |-> 0, lr_schedulers |-> 0, checkpoint_check |-> 0,
                  did_train_only |-> FALSE]

\* everything a hook may touch; the engine owns pc, calls, result, op,
\* done_value and runs
hookVars == << iteration_count, fitVars, trainVars, trainerVars, ghostVars, evalVars >>

\* ------------------------------------------------------------- construction
\* mutant: a default is applied as soon as one of the two arguments is unset
FitLoop_init_either_unset(a) ==
    [iteration_count |-> 0,
     teardown_already_run |-> FALSE,
     max_epochs |-> IF a.max_epochs = None \/ a.max_steps = None
                    THEN Some(DefaultMaxEpochs) ELSE a.max_epochs,
     min_epochs |-> IF a.min_epochs = None \/ a.min_steps = None
                    THEN Some(DefaultMinEpochs) ELSE a.min_epochs,
     training_loop |-> [min_steps |-> a.min_steps, max_steps |-> a.max_steps]]

\* Loop.__init__ and FitLoop.__init__: the fields after construction
FitLoop_init(a) ==
    [iteration_count |-> 0,
     teardown_already_run |-> FALSE,
     max_epochs |-> IF a.max_epochs = None /\ a.max_steps = None
                    THEN Some(DefaultMaxEpochs) ELSE a.max_epochs,
     min_epochs |-> IF a.min_epochs = None /\ a.min_steps = None
                    THEN Some(DefaultMinEpochs) ELSE a.min_epochs,
     training_loop |-> [min_steps |-> a.min_steps, max_steps |-> a.max_steps]]

\* EvaluationLoop.__init__
EvaluationLoop_init ==
    [iteration_count |-> 0, predictions |-> None, dl_max_batches |-> None,
     dataloader_idx |-> None, num_dataloaders |-> None, outputs |-> << >>]

FitArgs == [min_epochs : EpochArgs, max_epochs : EpochArgs,
            min_steps : StepArgs, max_steps : StepArgs]

\* no check_checkpoint_callback call followed yet
NoCheckpointCheck ==
    [should_update |-> FALSE, is_last |-> FALSE, callbacks |-> << >>,
     invoked |-> << >>, info |-> 0]

NoRunArgs == [dataloader |-> << >>, dataloader_idx |-> 0, dl_max_batches |-> 0,
              num_dataloaders |-> 1]

Init ==
    /\ pc = [l \in Loops |-> "idle"]
    /\ calls = [l \in Loops |-> NoCalls]
    /\ result = [l \in Loops |-> None]
    /\ op = << "driver", "construct" >>
    /\ running_stage \in {"train", "validate", "test"}
    \* Trainer.fit drives the FitLoop, Trainer.validate/test the EvaluationLoop;
    \* the loop an invocation does not drive stays as default-constructed
    /\ args \in IF running_stage = "train" THEN FitArgs
                ELSE {[min_epochs |-> None, max_epochs |-> None,
                       min_steps |-> None, max_steps |-> None]}
    /\ iteration_count = [l \in Loops |->
            IF l = "fit" THEN FitLoop_init(args).iteration_count
            ELSE IF l = "eval" THEN EvaluationLoop_init.iteration_count ELSE 0]
    /\ max_epochs = FitLoop_init(args).max_epochs
    /\ min_epochs = FitLoop_init(args).min_epochs
    /\ teardown_already_run = FitLoop_init(args).teardown_already_run
    /\ checkpoint_check = NoCheckpointCheck
    /\ min_steps = FitLoop_init(args).training_loop.min_steps
    /\ max_steps = FitLoop_init(args).training_loop.max_steps
    /\ global_step = 0
    /\ batches_seen = 0
    /\ epoch_output = None
    /\ done_value = [l \in Loops |-> None]
    /\ runs = 0
    /\ should_stop = FALSE
    /\ num_training_batches \in IF running_stage = "train" THEN 0..MaxTrainBatches ELSE {0}
    /\ has_trained = FALSE
    /\ effects = NoEffects
    /\ iter_effects = NoIterEffects
    /\ observed_step = None
    /\ run_args = NoRunArgs
    /\ it_pos = 0
    /\ predictions = EvaluationLoop_init.predictions
    /\ dl_max_batches = EvaluationLoop_init.dl_max_batches
    /\ dataloader_idx = EvaluationLoop_init.dataloader_idx
    /\ num_dataloaders = EvaluationLoop_init.num_dataloaders
    /\ outputs = EvaluationLoop_init.outputs
    /\ step_kwargs = << >>
    /\ policy \in IF running_stage = "train" THEN {"append"} ELSE {"append", "drop"}
    /\ result_outputs \in IF running_stage = "train" THEN {FALSE} ELSE BOOLEAN

\* ------------------------------------------------------------------ FitLoop
current_epoch == iteration_count["fit"]
testing == running_stage = "test"
Fitting == running_stage \notin {"validate", "test"}

\* mutant: a stop request that must wait is not cleared
FitLoop_done_keeps_request ==
    LET stop_steps == max_steps # None /\ global_step >= Val(max_steps)
        stop_epochs == max_epochs # None /\ current_epoch >= Val(max_epochs)
        met_min_epochs == IF Truthy(min_epochs) THEN current_epoch >= Val(min_epochs) ELSE TRUE
        met_min_steps == IF Truthy(min_steps) THEN global_step >= Val(min_steps) ELSE TRUE
        honoured == should_stop /\ met_min_epochs /\ met_min_steps
    IN  [value |-> stop_steps \/ honoured \/ stop_epochs,
         notice |-> should_stop /\ ~honoured,
         should_stop |-> should_stop]

\* mutant: every evaluation consumes the stop request
FitLoop_done_clears_always ==
    LET stop_steps == max_steps # None /\ global_step >= Val(max_steps)
        stop_epochs == max_epochs # None /\ current_epoch >= Val(max_epochs)
        met_min_epochs == IF Truthy(min_epochs) THEN current_epoch >= Val(min_epochs) ELSE TRUE
        met_min_steps == IF Truthy(min_steps) THEN global_step >= Val(min_steps) ELSE TRUE
        honoured == should_stop /\ met_min_epochs /\ met_min_steps
    IN  [value |-> stop_steps \/ honoured \/ stop_epochs,
         notice |-> should_stop /\ ~honoured,
         should_stop |-> FALSE]

\* mutant: a stop request is honoured whatever the minimums
FitLoop_done_ignores_minimum ==
    LET stop_steps == max_steps # None /\ global_step >= Val(max_steps)
        stop_epochs == max_epochs # None /\ current_epoch >= Val(max_epochs)
        met_min_epochs == IF Truthy(min_epochs) THEN current_epoch >= Val(min_epochs) ELSE TRUE
        met_min_steps == IF Truthy(min_steps) THEN global_step >= Val(min_steps) ELSE TRUE
        honoured == should_stop
    IN  [value |-> stop_steps \/ honoured \/ stop_epochs,
         \* log.info('Trainer was signaled to stop but ...')
         notice |-> should_stop /\ ~honoured,
         should_stop |-> IF should_stop /\ ~honoured THEN FALSE ELSE should_stop]

\* mutant: one epoch more than max_epochs
FitLoop_done_epochs_off_by_one ==
    LET stop_steps == max_steps # None /\ global_step >= Val(max_steps)
        stop_epochs == max_epochs # None /\ current_epoch > Val(max_epochs)
        met_min_epochs == IF Truthy(min_epochs) THEN current_epoch >= Val(min_epochs) ELSE TRUE
        met_min_steps == IF Truthy(min_steps) THEN global_step >= Val(min_steps) ELSE TRUE
        honoured == should_stop /\ met_min_epochs /\ met_min_steps
    IN  [value |-> stop_steps \/ honoured \/ stop_epochs,
         \* log.info('Trainer was signaled to stop but ...')
         notice |-> should_stop /\ ~honoured,
         should_stop |-> IF should_stop /\ ~honoured THEN FALSE ELSE should_stop]

\* FitLoop.done: the value returned and the value trainer.should_stop is left with
FitLoop_done ==
    LET stop_steps == max_steps # None /\ global_step >= Val(max_steps)
        stop_epochs == max_epochs # None /\ current_epoch >= Val(max_epochs)
        met_min_epochs == IF Truthy(min_epochs) THEN current_epoch >= Val(min_epochs) ELSE TRUE
        met_min_steps == IF Truthy(min_steps) THEN global_step >= Val(min_steps) ELSE TRUE
        honoured == should_stop /\ met_min_epochs /\ met_min_steps
    IN  [value |-> stop_steps \/ honoured \/ stop_epochs,
         \* log.info('Trainer was signaled to stop but ...')
         notice |-> should_stop /\ ~honoured,
         should_stop |-> IF should_stop /\ ~honoured THEN FALSE ELSE should_stop]

\* mutant: the number of training batches is not looked at
FitLoop_should_skip_training_done_only(done) == done

\* FitLoop._should_skip_training, given the value done returned
FitLoop_should_skip_training(done) == done \/ num_training_batches = 0

\* FitLoop.reset
FitLoop_reset ==
    /\ iteration_count' = [iteration_count EXCEPT !["fit"] = 0]
    /\ UNCHANGED << fitVars, trainVars, trainerVars, ghostVars, evalVars >>

\* FitLoop.on_run_start: moves the results to the device, fires on_train_start
FitLoop_on_run_start == UNCHANGED hookVars

\* FitLoop.on_advance_start: dataloader reload, sampler epoch, epoch-start hooks
FitLoop_on_advance_start ==
    /\ iter_effects' = NoIterEffects
    /\ observed_step' = None
    /\ UNCHANGED << iteration_count, fitVars, trainVars, trainerVars, effects, evalVars >>

\* mutant: has_trained is not looked at
FitLoop_check_checkpoint_callback_untrained(should_update) == should_update

\* FitLoop.check_checkpoint_callback: whether the checkpoint callbacks are invoked
FitLoop_check_checkpoint_callback(should_update) == should_update /\ has_trained

\* a registered checkpoint callback: its name and the two flags the loop reads
CheckpointCallbacks == [name : {"a", "b"}, save_last : BOOLEAN, verbose : BOOLEAN]
CallbackLists == UNION {[1..n -> CheckpointCallbacks] : n \in 0..MaxCallbacks}

\* for cb in callbacks: cb.on_validation_end(self.trainer, model), from the i-th
\* on; the calls made, appended to log
RECURSIVE ForCallbacks(_, _, _)
ForCallbacks(callbacks, i, log) ==
    IF i > Len(callbacks) THEN log
    ELSE ForCallbacks(callbacks, i + 1, Append(log, << callbacks[i].name, "on_validation_end" >>))

\* FitLoop.check_checkpoint_callback(should_update, is_last) with the trainer's
\* checkpoint_callbacks: the on_validation_end calls made, in order, and the
\* number of rank_zero_info messages
FitLoop_check_checkpoint_callback_calls(should_update, is_last, callbacks) ==
    IF FitLoop_check_checkpoint_callback(should_update)
    THEN [invoked |-> ForCallbacks(callbacks, 1, << >>),
          info |-> IF is_last /\ \E i \in 1..Len(callbacks) :
                                    callbacks[i].save_last /\ callbacks[i].verbose
                   THEN 1 ELSE 0]
    ELSE [invoked |-> << >>, info |-> 0]

\* mutant: the checkpoint callbacks are checked whether or not validation ran
FitLoop_on_advance_end_always_checks(did_train_only) ==
    /\ IF batches_seen = 0
       THEN UNCHANGED << iter_effects, observed_step >>
       ELSE /\ iter_effects' =
                 [iter_effects EXCEPT !.lr_schedulers = @ + 1,
                                      !.did_train_only = did_train_only,
                                      !.checkpoint_check = @ + 1]
            /\ observed_step' =
                 IF FitLoop_check_checkpoint_callback(TRUE)
                 THEN Some((global_step - 1)) ELSE observed_step
    \* global_step -= 1 ... global_step += 1
    /\ global_step' = IF batches_seen # 0 /\ did_train_only
                      THEN (global_step - 1) + 1 ELSE global_step
    /\ UNCHANGED << iteration_count, fitVars, min_steps, max_steps, batches_seen,
                    epoch_output, trainerVars, effects, evalVars >>

\* FitLoop.on_advance_end; did_train_only is what the trainer and the evaluation
\* loop answer about skipping validation
FitLoop_on_advance_end(did_train_only) ==
    /\ IF batches_seen = 0
       THEN UNCHANGED << iter_effects, observed_step >>
       ELSE /\ iter_effects' =
                 [iter_effects EXCEPT !.lr_schedulers = @ + 1,
                                      !.did_train_only = did_train_only,
                                      !.checkpoint_check = IF did_train_only THEN @ + 1 ELSE @]
            /\ observed_step' =
                 IF did_train_only /\ FitLoop_check_checkpoint_callback(TRUE)
                 THEN Some((global_step - 1)) ELSE observed_step
    \* global_step -= 1 ... global_step += 1
    /\ global_step' = IF batches_seen # 0 /\ did_train_only
                      THEN (global_step - 1) + 1 ELSE global_step
    /\ UNCHANGED << iteration_count, fitVars, min_steps, max_steps, batches_seen,
                    epoch_output, trainerVars, effects, evalVars >>

\* mutant: the teardown is not guarded by _teardown_already_run
FitLoop_on_run_end_unguarded(has_logger) ==
    /\ teardown_already_run' = TRUE
    /\ iteration_count' = [iteration_count EXCEPT !["fit"] = @ - 1]
    /\ global_step' = (global_step - 1) + 1
    /\ observed_step' = IF has_trained THEN Some((global_step - 1)) ELSE observed_step
    /\ effects' =
         [effects EXCEPT !.epoch_decrement = @ + 1,
                         !.checkpoint_check = @ + 1,
                         !.checkpoint_callbacks = IF has_trained THEN @ + 1 ELSE @,
                         !.on_train_end = @ + 1,
                         !.finalize = IF has_logger THEN @ + 1 ELSE @,
                         !.describe = @ + 1,
                         !.accelerator_on_train_end = @ + 1,
                         !.stage_cleared = @ + 1]
    /\ running_stage' = "None"
    /\ UNCHANGED << args, max_epochs, min_epochs, checkpoint_check,
                    min_steps, max_steps, batches_seen, epoch_output,
                    should_stop, num_training_batches, has_trained,
                    iter_effects, evalVars >>

\* mutant: training_loop.global_step += 1 is left out
FitLoop_on_run_end_no_restore(has_logger) ==
    IF teardown_already_run
    THEN UNCHANGED hookVars
    ELSE /\ teardown_already_run' = TRUE
         /\ iteration_count' = [iteration_count EXCEPT !["fit"] = @ - 1]
         /\ global_step' = global_step - 1
         /\ observed_step' = IF FitLoop_check_checkpoint_callback(TRUE)
                             THEN Some((global_step - 1)) ELSE observed_step
         /\ effects' =
              [effects EXCEPT !.epoch_decrement = @ + 1,
                              !.checkpoint_check = @ + 1,
                              !.checkpoint_callbacks =
                                  IF FitLoop_check_checkpoint_callback(TRUE) THEN @ + 1 ELSE @,
                              !.on_train_end = @ + 1,
                              !.finalize = IF has_logger THEN @ + 1 ELSE @,
                              !.describe = @ + 1,
                              !.accelerator_on_train_end = @ + 1,
                              !.stage_cleared = @ + 1]
         /\ running_stage' = "None"
         /\ UNCHANGED << args, max_epochs, min_epochs, checkpoint_check,
                         min_steps, max_steps, batches_seen, epoch_output,
                         should_stop, num_training_batches, has_trained,
                         iter_effects, evalVars >>

\* mutant: the teardown is redone by every run
FitLoop_on_run_end_every_run(has_logger) ==
    IF teardown_already_run /\ pc["fit"] # "on_run_end"
    THEN UNCHANGED hookVars
    ELSE /\ teardown_already_run' = TRUE
         /\ iteration_count' = [iteration_count EXCEPT !["fit"] = @ - 1]
         /\ global_step' = (global_step - 1) + 1
         /\ observed_step' = IF FitLoop_check_checkpoint_callback(TRUE)
                             THEN Some((global_step - 1)) ELSE observed_step
         /\ effects' =
              [effects EXCEPT !.epoch_decrement = @ + 1,
                              !.checkpoint_check = @ + 1,
                              !.checkpoint_callbacks =
                                  IF FitLoop_check_checkpoint_callback(TRUE) THEN @ + 1 ELSE @,
                              !.on_train_end = @ + 1,
                              !.finalize = IF has_logger THEN @ + 1 ELSE @,
                              !.describe = @ + 1,
                              !.accelerator_on_train_end = @ + 1,
                              !.stage_cleared = @ + 1]
         /\ running_stage' = "None"
         /\ UNCHANGED << args, max_epochs, min_epochs, checkpoint_check,
                         min_steps, max_steps, batches_seen, epoch_output,
                         should_stop, num_training_batches, has_trained,
                         iter_effects, evalVars >>

\* FitLoop.on_run_end; has_logger is whether trainer.logger is not None
FitLoop_on_run_end(has_logger) ==
    IF teardown_already_run
    THEN UNCHANGED hookVars
    ELSE /\ teardown_already_run' = TRUE
         /\ iteration_count' = [iteration_count EXCEPT !["fit"] = @ - 1]
         /\ global_step' = (global_step - 1) + 1
         /\ observed_step' = IF FitLoop_check_checkpoint_callback(TRUE)
                             THEN Some((global_step - 1)) ELSE observed_step
         /\ effects' =
              [effects EXCEPT !.epoch_decrement = @ + 1,
                              !.checkpoint_check = @ + 1,
                              !.checkpoint_callbacks =
                                  IF FitLoop_check_checkpoint_callback(TRUE) THEN @ + 1 ELSE @,
                              !.on_train_end = @ + 1,
                              !.finalize = IF has_logger THEN @ + 1 ELSE @,
                              !.describe = @ + 1,
                              !.accelerator_on_train_end = @ + 1,
                              !.stage_cleared = @ + 1]
         /\ running_stage' = "None"
         /\ UNCHANGED << args, max_epochs, min_epochs, checkpoint_check,
                         min_steps, max_steps, batches_seen, epoch_output,
                         should_stop, num_training_batches, has_trained,
                         iter_effects, evalVars >>

\* ------------------------------------------------- TrainingEpochLoop (child)
\* the contract FitLoop relies on: a Loop over the training batches that counts
\* the batches it saw and the optimizer steps, and returns the epoch output
TrainingEpochLoop_done ==
    \/ iteration_count["train"] >= num_training_batches
    \/ (max_steps # None /\ global_step >= Val(max_steps))

TrainingEpochLoop_reset ==
    /\ iteration_count' = [iteration_count EXCEPT !["train"] = 0]
    /\ batches_seen' = 0
    /\ UNCHANGED << fitVars, min_steps, max_steps, global_step, epoch_output,
                    trainerVars, ghostVars, evalVars >>

\* one training batch: an optimizer step, or the early-termination signal
TrainingEpochLoop_advance(stop) ==
    IF stop
    THEN UNCHANGED hookVars
    ELSE /\ batches_seen' = batches_seen + 1
         /\ global_step' = global_step + 1
         /\ has_trained' = TRUE
         /\ UNCHANGED << iteration_count, fitVars, min_steps, max_steps, epoch_output,
                         should_stop, num_training_batches, running_stage,
                         ghostVars, evalVars >>

TrainingEpochLoop_on_run_end_values == {None, Some("epoch_output")}

\* ----------------------------------------------------------- EvaluationLoop
\* mutant: one batch more than dl_max_batches
EvaluationLoop_done_off_by_one == iteration_count["eval"] > Val(dl_max_batches)

EvaluationLoop_done == iteration_count["eval"] >= Val(dl_max_batches)

\* mutant: the outputs of the previous run are kept
EvaluationLoop_reset_keeps_outputs ==
    /\ iteration_count' = [iteration_count EXCEPT !["eval"] = 0]
    /\ predictions' = Some(<< >>)
    /\ dl_max_batches' = None
    /\ dataloader_idx' = None
    /\ num_dataloaders' = None
    /\ UNCHANGED << fitVars, trainVars, trainerVars, ghostVars,
                    run_args, it_pos, outputs, step_kwargs, policy, result_outputs >>

EvaluationLoop_reset ==
    /\ iteration_count' = [iteration_count EXCEPT !["eval"] = 0]
    /\ predictions' = Some(<< >>)
    /\ dl_max_batches' = None
    /\ dataloader_idx' = None
    /\ num_dataloaders' = None
    /\ outputs' = << >>
    /\ UNCHANGED << fitVars, trainVars, trainerVars, ghostVars,
                    run_args, it_pos, step_kwargs, policy, result_outputs >>

EvaluationLoop_on_run_start ==
    /\ dl_max_batches' = Some(run_args.dl_max_batches)
    /\ dataloader_idx' = Some(run_args.dataloader_idx)
    /\ num_dataloaders' = Some(run_args.num_dataloaders)
    /\ UNCHANGED << iteration_count, fitVars, trainVars, trainerVars, ghostVars,
                    run_args, it_pos, predictions, outputs, step_kwargs, policy,
                    result_outputs >>

\* mutant: dataloader_idx is passed in testing mode only
EvaluationLoop_build_kwargs_test_only(batch, batch_idx, dl_idx) ==
    LET kw == << << "batch", batch >>, << "batch_idx", batch_idx >> >>
        multiple_test_loaders == testing /\ Val(num_dataloaders) > 1
    IN  IF multiple_test_loaders
        THEN Append(kw, << "dataloader_idx", dl_idx >>)
        ELSE kw

\* EvaluationLoop._build_kwargs: the ordered (name, value) pairs
EvaluationLoop_build_kwargs(batch, batch_idx, dl_idx) ==
    LET kw == << << "batch", batch >>, << "batch_idx", batch_idx >> >>
        multiple_val_loaders == ~testing /\ Val(num_dataloaders) > 1
        multiple_test_loaders == testing /\ Val(num_dataloaders) > 1
    IN  IF multiple_test_loaders \/ multiple_val_loaders
        THEN Append(kw, << "dataloader_idx", dl_idx >>)
        ELSE kw

\* EvaluationLoop.evaluation_step: the accelerator's step answers with what it was given
EvaluationLoop_evaluation_step(batch, batch_idx, dl_idx) ==
    [fx |-> IF testing THEN "test_step" ELSE "validation_step",
     kwargs |-> EvaluationLoop_build_kwargs(batch, batch_idx, dl_idx),
     result_collection |-> result_outputs]

\* EvaluationLoop.store_predictions
EvaluationLoop_store_predictions(output, batch_idx) ==
    IF predictions # None /\ output.result_collection /\ testing
    THEN Some(Append(Val(predictions), batch_idx))
    ELSE predictions

\* trainer._track_output_for_epoch_end
TrackOutputForEpochEnd(outs, output) ==
    IF policy = "append" THEN Append(outs, output) ELSE outs

\* EvaluationLoop.advance; stop is whether it raised StopIteration
EvaluationLoop_advance(stop) ==
    LET dl == run_args.dataloader
        exhausted == it_pos >= Len(dl)
        batch == dl[it_pos + 1]
        batch_idx == it_pos
        output == EvaluationLoop_evaluation_step(batch, batch_idx, run_args.dataloader_idx)
    IN  /\ stop = (exhausted \/ batch = "None")
        /\ it_pos' = IF exhausted THEN it_pos ELSE it_pos + 1
        /\ IF stop
           THEN UNCHANGED << predictions, outputs, step_kwargs >>
           ELSE /\ step_kwargs' = output.kwargs
                /\ predictions' = EvaluationLoop_store_predictions(output, batch_idx)
                /\ outputs' = TrackOutputForEpochEnd(outputs, output)
        /\ UNCHANGED << iteration_count, fitVars, trainVars, trainerVars, ghostVars,
                        run_args, dl_max_batches, dataloader_idx, num_dataloaders, policy,
                        result_outputs >>

\* ------------------------------------------------------- hooks of each loop
reset(l) ==
    CASE l = "fit" -> FitLoop_reset
      [] l = "train" -> TrainingEpochLoop_reset
      [] l = "eval" -> EvaluationLoop_reset

\* Loop.on_run_start is a no-op unless overridden
on_run_start(l) ==
    CASE l = "fit" -> FitLoop_on_run_start
      [] l = "train" -> UNCHANGED hookVars
      [] l = "eval" -> EvaluationLoop_on_run_start

\* whether the evaluation of done made by this step logs the deferred-stop notice
Notice(l) == l = "fit" /\ FitLoop_done.notice

\* the done property: d is the value it returns
done(l, d) ==
    CASE l = "fit" ->
           /\ d = FitLoop_done.value
           /\ should_stop' = FitLoop_done.should_stop
           /\ UNCHANGED << iteration_count, args, max_epochs, min_epochs, checkpoint_check,
                           teardown_already_run, trainVars, num_training_batches,
                           has_trained, running_stage, ghostVars, evalVars >>
      [] l = "train" -> d = TrainingEpochLoop_done /\ UNCHANGED hookVars
      [] l = "eval" -> d = EvaluationLoop_done /\ UNCHANGED hookVars

\* Loop.on_advance_start is a no-op unless overridden
on_advance_start(l) ==
    CASE l = "fit" -> FitLoop_on_advance_start
      [] l = "train" -> UNCHANGED hookVars
      [] l = "eval" -> UNCHANGED hookVars

\* advance of the loops whose advance runs no child loop
advance(l, stop) ==
    CASE l = "train" -> TrainingEpochLoop_advance(stop)
      [] l = "eval" -> EvaluationLoop_advance(stop)

\* Loop.on_advance_end is a no-op unless overridden
on_advance_end(l) ==
    CASE l = "fit" -> \E did_train_only \in BOOLEAN : FitLoop_on_advance_end(did_train_only)
      [] l = "train" -> UNCHANGED hookVars
      [] l = "eval" -> UNCHANGED hookVars

\* mutant: the iteration count is advanced by two
increment_iteration_by_two(iteration) == iteration + 2

\* Loop.increment_iteration
increment_iteration(iteration) == iteration + 1

on_run_end(l) ==
    CASE l = "fit" -> \E has_logger \in BOOLEAN : FitLoop_on_run_end(has_logger)
      [] l = "train" -> UNCHANGED hookVars
      [] l = "eval" -> UNCHANGED hookVars

\* the values on_run_end may return
on_run_end_values(l) ==
    CASE l = "fit" -> {None}
      [] l = "train" -> TrainingEpochLoop_on_run_end_values
      [] l = "eval" -> {Some(outputs)}

\* --------------------------------------------------------------- Loop.run
Called(l, h) == [calls EXCEPT ![l][h] = @ + 1]
Goto(l, where) == [pc EXCEPT ![l] = where]

Loop_run_reset(l) ==
    /\ pc[l] = "reset"
    /\ reset(l)
    /\ calls' = Called(l, "reset")
    /\ pc' = Goto(l, "on_run_start")
    /\ op' = << l, "reset" >>
    /\ UNCHANGED << result, runs, done_value >>

Loop_run_on_run_start(l) ==
    /\ pc[l] = "on_run_start"
    /\ on_run_start(l)
    /\ calls' = Called(l, "on_run_start")
    /\ pc' = Goto(l, "while")
    /\ op' = << l, "on_run_start" >>
    /\ UNCHANGED << result, runs, done_value >>

\* mutant: the body runs once more after done has become true
Loop_run_while_ignores_done(l) ==
    /\ pc[l] = "while"
    /\ \E d \in BOOLEAN :
          /\ done(l, d)
          /\ d \/ iteration_count[l] < IterCap
          /\ done_value' = [done_value EXCEPT ![l] = Some(d)]
          /\ pc' = Goto(l, IF d /\ calls[l].advance > 0 THEN "on_run_end"
                           ELSE "on_advance_start")
    /\ op' = << l, "done", Notice(l) >>
    /\ UNCHANGED << calls, result, runs >>

\* while not self.done
Loop_run_while(l) ==
    /\ pc[l] = "while"
    /\ \E d \in BOOLEAN :
          /\ done(l, d)
          /\ d \/ iteration_count[l] < IterCap
          /\ done_value' = [done_value EXCEPT ![l] = Some(d)]
          /\ pc' = Goto(l, IF d THEN "on_run_end" ELSE "on_advance_start")
    /\ op' = << l, "done", Notice(l) >>
    /\ UNCHANGED << calls, result, runs >>

Loop_run_on_advance_start(l) ==
    /\ pc[l] = "on_advance_start"
    /\ on_advance_start(l)
    /\ calls' = Called(l, "on_advance_start")
    /\ pc' = Goto(l, "advance")
    /\ op' = << l, "on_advance_start" >>
    /\ UNCHANGED << result, runs, done_value >>

\* mutant: increment_iteration directly after advance, on_advance_end left out
Loop_run_advance_no_end(l) ==
    /\ pc[l] = "advance"
    /\ l # "fit"
    /\ \E stop \in BOOLEAN :
          /\ advance(l, stop)
          /\ pc' = Goto(l, IF stop THEN "on_run_end" ELSE "increment")
          /\ op' = << l, IF stop THEN "StopIteration" ELSE "advance" >>
    /\ calls' = Called(l, "advance")
    /\ UNCHANGED << result, runs, done_value >>

\* mutant: except StopIteration: continue
Loop_run_advance_continue(l) ==
    /\ pc[l] = "advance"
    /\ l # "fit"
    /\ \E stop \in BOOLEAN :
          /\ advance(l, stop)
          /\ pc' = Goto(l, IF stop THEN "while" ELSE "on_advance_end")
          /\ op' = << l, IF stop THEN "StopIteration" ELSE "advance" >>
    /\ calls' = Called(l, "advance")
    /\ UNCHANGED << result, runs, done_value >>

\* self.advance(), and except StopIteration: break
Loop_run_advance(l) ==
    /\ pc[l] = "advance"
    /\ l # "fit"
    /\ \E stop \in BOOLEAN :
          /\ advance(l, stop)
          /\ pc' = Goto(l, IF stop THEN "on_run_end" ELSE "on_advance_end")
          /\ op' = << l, IF stop THEN "StopIteration" ELSE "advance" >>
    /\ calls' = Called(l, "advance")
    /\ UNCHANGED << result, runs, done_value >>

Loop_run_on_advance_end(l) ==
    /\ pc[l] = "on_advance_end"
    /\ on_advance_end(l)
    /\ calls' = Called(l, "on_advance_end")
    /\ pc' = Goto(l, "increment")
    /\ op' = << l, "on_advance_end" >>
    /\ UNCHANGED << result, runs, done_value >>

Loop_run_increment(l) ==
    /\ pc[l] = "increment"
    /\ iteration_count' =
          [iteration_count EXCEPT ![l] = increment_iteration(iteration_count[l])]
    /\ calls' = Called(l, "increment_iteration")
    /\ pc' = Goto(l, "while")
    /\ done_value' = [done_value EXCEPT ![l] = None]
    /\ op' = << l, "increment_iteration" >>
    /\ UNCHANGED << result, runs, fitVars, trainVars, trainerVars, ghostVars, evalVars >>

\* return self.on_run_end()
Loop_run_on_run_end(l) ==
    /\ pc[l] = "on_run_end"
    /\ \E r \in on_run_end_values(l) :
          /\ on_run_end(l)
          /\ result' = [result EXCEPT ![l] = r]
    /\ calls' = Called(l, "on_run_end")
    /\ pc' = Goto(l, "returned")
    /\ op' = << l, "on_run_end" >>
    /\ UNCHANGED << runs, done_value >>

\* FitLoop.advance up to the call of training_loop.run(train_dataloader)
FitLoop_advance_call ==
    /\ pc["fit"] = "advance"
    /\ pc["train"] \in {"idle", "returned"}
    /\ pc' = [pc EXCEPT !["fit"] = "in_advance", !["train"] = "reset"]
    /\ calls' = [calls EXCEPT !["fit"]["advance"] = @ + 1, !["train"] = NoCalls]
    /\ result' = [result EXCEPT !["train"] = None]
    /\ done_value' = [done_value EXCEPT !["train"] = None]
    /\ op' = << "fit", "advance" >>
    /\ UNCHANGED << runs, hookVars >>

\* mutant: global_step += 1 is left out
FitLoop_advance_return_no_restore ==
    /\ pc["fit"] = "in_advance"
    /\ pc["train"] = "returned"
    /\ epoch_output' = result["train"]
    /\ IF result["train"] = None
       THEN UNCHANGED << global_step, iter_effects, observed_step >>
       ELSE \* global_step -= 1; update_train_epoch_metrics(); global_step += 1
            /\ observed_step' = Some((global_step - 1))
            /\ iter_effects' = [iter_effects EXCEPT !.epoch_metrics = @ + 1]
            /\ global_step' = global_step - 1
    /\ pc' = [pc EXCEPT !["fit"] = "on_advance_end", !["train"] = "idle"]
    /\ op' = << "fit", "advance_return" >>
    /\ UNCHANGED << calls, result, runs, done_value, iteration_count, fitVars, min_steps, max_steps,
                    batches_seen, trainerVars, effects, evalVars >>

\* FitLoop.advance from the return of training_loop.run() to its own return
FitLoop_advance_return ==
    /\ pc["fit"] = "in_advance"
    /\ pc["train"] = "returned"
    /\ epoch_output' = result["train"]
    /\ IF result["train"] = None
       THEN UNCHANGED << global_step, iter_effects, observed_step >>
       ELSE \* global_step -= 1; update_train_epoch_metrics(); global_step += 1
            /\ observed_step' = Some((global_step - 1))
            /\ iter_effects' = [iter_effects EXCEPT !.epoch_metrics = @ + 1]
            /\ global_step' = (global_step - 1) + 1
    /\ pc' = [pc EXCEPT !["fit"] = "on_advance_end", !["train"] = "idle"]
    /\ op' = << "fit", "advance_return" >>
    /\ UNCHANGED << calls, result, runs, done_value, iteration_count, fitVars, min_steps, max_steps,
                    batches_seen, trainerVars, effects, evalVars >>

\* ------------------------------------------------------------- entry points
Idle(l) == pc[l] \in {"idle", "returned"}

\* FitLoop.run
FitLoop_run ==
    /\ Fitting
    /\ Idle("fit")
    /\ runs < MaxRuns
    /\ \E d \in BOOLEAN :
          /\ done("fit", d)
          /\ pc' = Goto("fit", IF FitLoop_should_skip_training(d) THEN "returned" ELSE "reset")
          /\ done_value' = [done_value EXCEPT !["fit"] = Some(d)]
    /\ runs' = runs + 1
    /\ calls' = [calls EXCEPT !["fit"] = NoCalls]
    /\ result' = [result EXCEPT !["fit"] = None]
    /\ op' = << "fit", "run", Notice("fit") >>

EvalRunArgs ==
    { a \in [dataloader : Dataloaders, dataloader_idx : 0..1,
             dl_max_batches : 0..MaxBatches, num_dataloaders : 1..2] :
        a.dataloader_idx < a.num_dataloaders }

\* Loop.run entered on the EvaluationLoop with the caller's arguments
EvaluationLoop_run ==
    /\ ~Fitting
    /\ Idle("eval")
    /\ \E a \in EvalRunArgs : run_args' = a
    /\ it_pos' = 0
    /\ step_kwargs' = << >>
    /\ pc' = Goto("eval", "reset")
    /\ calls' = [calls EXCEPT !["eval"] = NoCalls]
    /\ result' = [result EXCEPT !["eval"] = None]
    /\ done_value' = [done_value EXCEPT !["eval"] = None]
    /\ op' = << "eval", "run" >>
    /\ UNCHANGED << runs, iteration_count, fitVars, trainVars, trainerVars, ghostVars,
                    predictions, dl_max_batches, dataloader_idx, num_dataloaders,
                    outputs, policy, result_outputs >>

\* the done property read by the caller outside run()
Driver_done ==
    /\ Fitting
    /\ Idle("fit")
    /\ \E d \in BOOLEAN :
          /\ done("fit", d)
          /\ done_value' = [done_value EXCEPT !["fit"] = Some(d)]
    /\ op' = << "driver", "done", Notice("fit") >>
    /\ UNCHANGED << pc, calls, result, runs >>

\* on_run_end called by the caller outside run()
Driver_on_run_end ==
    /\ Fitting
    /\ Idle("fit")
    /\ on_run_end("fit")
    /\ op' = << "driver", "on_run_end" >>
    /\ UNCHANGED << pc, calls, result, runs, done_value >>

\* a callback or the caller sets trainer.should_stop. Only FitLoop.done reads the
\* flag, so a request made anywhere since the previous read is taken at the last
\* moment before the next one: the caller between runs, a callback before the
\* epoch loop's next done check
RequestStop ==
    /\ Fitting
    /\ Idle("fit") \/ pc["fit"] = "while"
    /\ ~should_stop
    /\ should_stop' = TRUE
    /\ op' = << "trainer", "should_stop" >>
    /\ UNCHANGED << pc, calls, result, runs, done_value, iteration_count, fitVars, trainVars,
                    num_training_batches, has_trained, running_stage, ghostVars, evalVars >>

Next ==
    \/ FitLoop_run
    \/ EvaluationLoop_run
    \/ \E l \in Loops : Loop_run_reset(l)
    \/ \E l \in Loops : Loop_run_on_run_start(l)
    \/ \E l \in Loops : Loop_run_while(l)
    \/ \E l \in Loops : Loop_run_on_advance_start(l)
    \/ \E l \in Loops : Loop_run_advance(l)
    \/ FitLoop_advance_call
    \/ FitLoop_advance_return
    \/ \E l \in Loops : Loop_run_on_advance_end(l)
    \/ \E l \in Loops : Loop_run_increment(l)
    \/ \E l \in Loops : Loop_run_on_run_end(l)
    \/ Driver_done
    \/ Driver_on_run_end
    \/ RequestStop

Spec == Init /\ [][Next]_vars

\* ------------------------------------------------------------- exceptions
\* a hook, or a collaborator it calls, raises instead of returning: the
\* early-termination signal or any other exception. pc[l] \in Exceptions
\* says that run() of loop l was left by that exception
Exceptions == {"StopIteration", "Exception"}

\* the calls Loop.run makes inside its try block
TryHooks == {"on_advance_start", "advance", "on_advance_end", "increment_iteration"}

\* the hooks of run() that can raise, and the position of each call
RaisingHooks == TryHooks \cup {"on_run_start", "on_run_end"}
PcOf(h) == IF h = "increment_iteration" THEN "increment" ELSE h

\* mutant: except Exception: break
Loop_run_except_any(h, e) == IF h \in TryHooks THEN "on_run_end" ELSE e

\* where run() continues when hook h raises e: except StopIteration: break
\* for the calls of the try block, and out of run() otherwise
Loop_run_except(h, e) ==
    IF h \in TryHooks /\ e = "StopIteration" THEN "on_run_end" ELSE e

\* hook h of loop l raises e before it has changed any state
Loop_run_raise(l) ==
    \E h \in RaisingHooks, e \in Exceptions :
       /\ pc[l] = PcOf(h)
       /\ calls' = Called(l, h)
       /\ pc' = Goto(l, Loop_run_except(h, e))
       /\ op' = << l, h, "raise", e >>
       /\ UNCHANGED << result, runs, done_value, hookVars >>

\* training_loop.run() was left by an exception: FitLoop.advance has no handler
\* and the exception reaches the try block of the FitLoop's run()
FitLoop_advance_propagate ==
    /\ pc["fit"] = "in_advance"
    /\ pc["train"] \in Exceptions
    /\ pc' = [pc EXCEPT !["fit"] = Loop_run_except("advance", pc["train"]),
                        !["train"] = "idle"]
    /\ op' = << "fit", "advance", "raise", pc["train"] >>
    /\ UNCHANGED << calls, result, runs, done_value, hookVars >>

\* logger_connector.update_train_epoch_metrics() raises between global_step -= 1
\* and global_step += 1
FitLoop_advance_raise ==
    /\ pc["fit"] = "in_advance"
    /\ pc["train"] = "returned"
    /\ result["train"] # None
    /\ \E e \in Exceptions :
          /\ pc' = [pc EXCEPT !["fit"] = Loop_run_except("advance", e),
                              !["train"] = "idle"]
          /\ op' = << "fit", "advance", "raise", e >>
    /\ epoch_output' = result["train"]
    /\ observed_step' = Some((global_step - 1))
    /\ iter_effects' = [iter_effects EXCEPT !.epoch_metrics = @ + 1]
    /\ global_step' = global_step - 1
    /\ UNCHANGED << calls, result, runs, done_value, iteration_count, fitVars, min_steps,
                    max_steps, batches_seen, trainerVars, effects, evalVars >>

\* train_dataloader.sampler.set_epoch() raises inside with suppress(Exception):
\* FitLoop.on_advance_start goes on as if it had returned
FitLoop_on_advance_start_suppress ==
    /\ pc["fit"] = "on_advance_start"
    /\ FitLoop_on_advance_start
    /\ calls' = Called("fit", "on_advance_start")
    /\ pc' = Goto("fit", "advance")
    /\ op' = << "fit", "on_advance_start", "suppress", "Exception" >>
    /\ UNCHANGED << result, runs, done_value >>

\* the runs of the loops with hooks that may raise; the caller only calls run()
NextExc ==
    \/ FitLoop_run
    \/ EvaluationLoop_run
    \/ \E l \in Loops : Loop_run_reset(l)
    \/ \E l \in Loops : Loop_run_on_run_start(l)
    \/ \E l \in Loops : Loop_run_while(l)
    \/ \E l \in Loops : Loop_run_on_advance_start(l)
    \/ \E l \in Loops : Loop_run_advance(l)
    \/ FitLoop_advance_call
    \/ FitLoop_advance_return
    \/ \E l \in Loops : Loop_run_on_advance_end(l)
    \/ \E l \in Loops : Loop_run_increment(l)
    \/ \E l \in Loops : Loop_run_on_run_end(l)
    \/ \E l \in Loops : Loop_run_raise(l)
    \/ FitLoop_advance_propagate
    \/ FitLoop_advance_raise
    \/ FitLoop_on_advance_start_suppress

\* the exceptions are explored for every max_epochs, the other bounds unset
InitExc ==
    /\ Init
    /\ args.min_epochs = None /\ args.min_steps = None /\ args.max_steps = None

SpecExc == InitExc /\ [][NextExc]_vars

\* ------------------------------------------- check_checkpoint_callback alone
\* FitLoop.check_checkpoint_callback called with any arguments on a trainer with
\* any registered checkpoint callbacks
CheckCheckpointCallback ==
    \E should_update \in BOOLEAN, is_last \in BOOLEAN, callbacks \in CallbackLists :
       LET did == FitLoop_check_checkpoint_callback_calls(should_update, is_last, callbacks)
       IN  /\ checkpoint_check' =
                [should_update |-> should_update, is_last |-> is_last,
                 callbacks |-> callbacks, invoked |-> did.invoked, info |-> did.info]
           /\ op' = << "fit", "check_checkpoint_callback" >>
           /\ UNCHANGED << pc, calls, result, done_value, runs, iteration_count, args,
                           max_epochs, min_epochs, teardown_already_run, trainVars,
                           trainerVars, ghostVars, evalVars >>

\* the checkpoint connector records a completed training step
HasTrained ==
    /\ ~has_trained
    /\ has_trained' = TRUE
    /\ op' = << "trainer", "has_trained" >>
    /\ UNCHANGED << pc, calls, result, done_value, runs, iteration_count, fitVars,
                    trainVars, should_stop, num_training_batches, running_stage,
                    ghostVars, evalVars >>

InitCheckpoint ==
    /\ Init
    /\ running_stage = "train"
    /\ args = [min_epochs |-> None, max_epochs |-> None,
               min_steps |-> None, max_steps |-> None]
    /\ num_training_batches = 0

NextCheckpoint == CheckCheckpointCallback \/ HasTrained

SpecCheckpoint == InitCheckpoint /\ [][NextCheckpoint]_vars

\* ------------------------------------------------- stop requests at any time
\* a callback sets trainer.should_stop at any point of the run, in the middle of
\* an epoch included
RequestStopAnytime ==
    /\ Fitting
    /\ ~should_stop
    /\ should_stop' = TRUE
    /\ op' = << "trainer", "should_stop" >>
    /\ UNCHANGED << pc, calls, result, runs, done_value, iteration_count, fitVars, trainVars,
                    num_training_batches, has_trained, running_stage, ghostVars, evalVars >>

NextStop ==
    \/ FitLoop_run
    \/ \E l \in Loops : Loop_run_reset(l)
    \/ \E l \in Loops : Loop_run_on_run_start(l)
    \/ \E l \in Loops : Loop_run_while(l)
    \/ \E l \in Loops : Loop_run_on_advance_start(l)
    \/ \E l \in Loops : Loop_run_advance(l)
    \/ FitLoop_advance_call
    \/ FitLoop_advance_return
    \/ \E l \in Loops : Loop_run_on_advance_end(l)
    \/ \E l \in Loops : Loop_run_increment(l)
    \/ \E l \in Loops : Loop_run_on_run_end(l)
    \/ RequestStopAnytime

InitStop == Init /\ running_stage = "train"

SpecStop == InitStop /\ [][NextStop]_vars

\* ==================================================================== claims

\* what the counters of loop l allow as the next call of hook h from run()
MayCall(l, h) ==
    LET c == calls[l]
        open == c.on_run_start = 1 /\ c.on_run_end = 0
    IN  CASE h = "reset" -> c = NoCalls
          [] h = "on_run_start" -> c = [NoCalls EXCEPT !.reset = 1]
          [] h = "on_advance_start" ->
                 /\ open
                 /\ done_value[l] = Some(FALSE)
                 /\ c.advance = c.on_advance_start
                 /\ c.on_advance_end = c.advance
                 /\ c.increment_iteration = c.on_advance_end
          [] h = "advance" ->
                 open /\ c.on_advance_start = c.advance + 1
          [] h = "on_advance_end" ->
                 open /\ c.on_advance_start = c.advance /\ c.advance = c.on_advance_end + 1
          [] h = "increment_iteration" ->
                 /\ open
                 /\ c.advance = c.on_advance_end
                 /\ c.on_advance_end = c.increment_iteration + 1
          [] h = "on_run_end" ->
                 /\ open
                 /\ c.on_advance_start = c.advance
                 /\ c.on_advance_end = c.increment_iteration
                 /\ \/ c.advance = c.on_advance_end /\ done_value[l] = Some(TRUE)
                    \/ c.advance = c.on_advance_end + 1

\* a step changes the calls of loop l by one permitted call, or starts a new run
\* when none is in progress
HookOrderStep(l) ==
    \/ calls'[l] = calls[l]
    \/ calls'[l] = NoCalls /\ Idle(l)
    \/ \E h \in Hooks :
          /\ calls'[l] = [calls[l] EXCEPT ![h] = @ + 1]
          /\ MayCall(l, h)
          /\ h = "on_run_end" =>
                /\ pc'[l] = "returned"
                /\ result'[l] \in on_run_end_values(l)'
                /\ l = "eval" => result'[l] = Some(outputs')

\* the child loop runs only inside the parent's advance(), and the parent's
\* on_advance_end follows the child's on_run_end
NestingStep ==
    /\ pc'["train"] # "idle" =>
          /\ pc'["fit"] = "in_advance"
          /\ calls'["fit"].advance = calls'["fit"].on_advance_end + 1
    /\ calls'["fit"].on_advance_end # calls["fit"].on_advance_end =>
          /\ calls["train"].on_run_end = 1
          /\ pc["train"] = "idle"

\* C1: in every run() of every loop the hooks are called in the order reset,
\* on_run_start, then per iteration with done false on_advance_start, advance,
\* on_advance_end, increment_iteration, then on_run_end once, whose value run()
\* returns; a child's run is over before its parent's on_advance_end
C1_RunOrder == [][(\A l \in Loops : HookOrderStep(l)) /\ NestingStep]_vars

C1_Witness ==
    /\ pc["fit"] = "returned"
    /\ calls["fit"].increment_iteration = 2
    /\ calls["fit"].on_run_end = 1
    /\ calls["train"].increment_iteration = 1
    /\ calls["train"].on_run_end = 1

\* advance() of loop l raised StopIteration and run() has not returned yet
Raised(l) == pc[l] = "on_run_end" /\ calls[l].advance = calls[l].on_advance_end + 1

C2_Step(l) ==
    /\ op' = << l, "StopIteration" >> =>
          /\ pc'[l] = "on_run_end"
          /\ calls'[l] = [calls[l] EXCEPT !["advance"] = @ + 1]
          /\ iteration_count'[l] = iteration_count[l]
          /\ \A m \in Loops \ {l} : pc'[m] = pc[m] /\ calls'[m] = calls[m]
    /\ Raised(l) =>
          \/ pc'[l] = pc[l] /\ calls'[l] = calls[l] /\ iteration_count'[l] = iteration_count[l]
          \/ /\ pc'[l] = "returned"
             /\ calls'[l] = [calls[l] EXCEPT !["on_run_end"] = @ + 1]
             /\ result'[l] \in on_run_end_values(l)'
             /\ l # "fit" => iteration_count'[l] = iteration_count[l]
    \* the parent of a child whose advance() raised goes on with its own iteration
    /\ op' = << "fit", "advance_return" >> => pc'["fit"] = "on_advance_end"

\* C2: when advance() raises StopIteration, run() calls neither on_advance_end nor
\* increment_iteration for that iteration, starts no further iteration, calls
\* on_run_end of the same loop next and returns its value; the loops around it go on
C2_StopIteration == [][\A l \in Loops : C2_Step(l)]_vars

C2_Witness ==
    /\ pc["fit"] = "returned"
    /\ calls["fit"].on_advance_end = 2
    /\ calls["train"].advance = calls["train"].on_advance_end + 1
    /\ calls["train"].on_run_end = 1
    /\ iteration_count["train"] = calls["train"].increment_iteration

\* done was true at the first check of this run of loop l
DoneAtFirstCheck(l) ==
    /\ calls[l].on_run_start = 1
    /\ calls[l].on_advance_start = 0
    /\ done_value[l] = Some(TRUE)

\* FitLoop.run() has just returned without running, done being true
SkippedBecauseDone ==
    op[1] = "fit" /\ op[2] = "run" /\ done_value["fit"] = Some(TRUE)

\* C3 as stated: every loop whose done is true when run() is entered, FitLoop
\* included, makes no advance() call and still calls on_run_end()
C3_Original ==
    /\ \A l \in Loops : DoneAtFirstCheck(l) /\ pc[l] # "while" =>
          pc[l] \in {"on_run_end", "returned", "idle"} /\ calls[l].advance = 0
    /\ SkippedBecauseDone => calls["fit"].on_run_end = 1

\* C3 (amended): a Loop.run() that finds done true at its first check makes no
\* advance() call, calls on_run_end() once and returns its value; FitLoop.run()
\* entered with done true returns None at once and calls no hook, on_run_end
\* included
C3_ZeroIterationRun ==
    /\ \A l \in Loops : DoneAtFirstCheck(l) /\ pc[l] # "while" =>
          /\ pc[l] \in {"on_run_end", "returned", "idle"}
          /\ calls[l].advance = 0
          /\ pc[l] \in {"returned", "idle"} =>
                /\ calls[l].on_run_end = 1
                /\ l = "eval" => result[l] = Some(outputs)
                /\ l = "fit" => result[l] = None
    /\ SkippedBecauseDone =>
          pc["fit"] = "returned" /\ calls["fit"] = NoCalls /\ result["fit"] = None

C3_Witness ==
    /\ DoneAtFirstCheck("eval")
    /\ pc["eval"] = "returned"
    /\ run_args.dl_max_batches = 0
    /\ Len(run_args.dataloader) = 2

\* the step evaluates FitLoop.done
FitDoneStep == Len(op') = 3 /\ op'[1] \in {"fit", "driver"}

\* a minimum as the claim reads it: set and not reached
SetMinUnmet ==
    \/ (min_epochs # None /\ current_epoch < Val(min_epochs))
    \/ (min_steps # None /\ global_step < Val(min_steps))

\* a minimum as the code reads it: set, not zero and not reached
MinUnmet ==
    \/ (Truthy(min_epochs) /\ current_epoch < Val(min_epochs))
    \/ (Truthy(min_steps) /\ global_step < Val(min_steps))

MaxReached ==
    \/ (max_steps # None /\ global_step >= Val(max_steps))
    \/ (max_epochs # None /\ current_epoch >= Val(max_epochs))

\* C4 as stated: with should_stop set, done returns False and clears the flag
\* when a set minimum is unmet, and returns True and keeps it otherwise
C4_Original ==
    [][FitDoneStep /\ should_stop =>
          IF SetMinUnmet
          THEN done_value'["fit"] = Some(FALSE) /\ ~should_stop'
          ELSE done_value'["fit"] = Some(TRUE) /\ should_stop']_vars

\* C4 (amended): with should_stop set, if a non-zero min_epochs or min_steps is
\* not reached, done clears should_stop and returns True exactly when max_steps
\* or max_epochs is reached (False otherwise); if every non-zero minimum is
\* reached, done returns True and should_stop stays set
C4_ShouldStopGating ==
    [][FitDoneStep /\ should_stop =>
          IF MinUnmet
          THEN done_value'["fit"] = Some(MaxReached) /\ ~should_stop' /\ op'[3]
          ELSE done_value'["fit"] = Some(TRUE) /\ should_stop' /\ ~op'[3]]_vars

C4_Witness ==
    /\ op = << "fit", "done", TRUE >>
    /\ done_value["fit"] = Some(FALSE)
    /\ ~should_stop
    /\ current_epoch = 1
    /\ min_epochs = Some(2)

\* the step is a call of FitLoop.on_run_end
OnRunEndStep == op' \in {<< "fit", "on_run_end" >>, << "driver", "on_run_end" >>}

TeardownOnce ==
    /\ \A e \in DOMAIN effects : effects[e] <= 1
    /\ ~teardown_already_run => effects = NoEffects
    /\ teardown_already_run =>
          /\ \A e \in {"epoch_decrement", "checkpoint_check", "on_train_end", "describe",
                      "accelerator_on_train_end", "stage_cleared"} : effects[e] = 1
          /\ running_stage = "None"

C6_SkipWithoutBatches ==
    [][op'[1] = "fit" /\ op'[2] = "run" /\ num_training_batches = 0 =>
          /\ pc'["fit"] = "returned"
          /\ pc'["train"] = pc["train"]
          /\ calls'["fit"] = NoCalls
          /\ result'["fit"] = None
          /\ iteration_count' = iteration_count
          /\ global_step' = global_step
          /\ teardown_already_run' = teardown_already_run]_vars

C6_Witness ==
    /\ op[1] = "fit" /\ op[2] = "run"
    /\ num_training_batches = 0
    /\ done_value["fit"] = Some(FALSE)
    /\ pc["fit"] = "returned"
    /\ calls["fit"] = NoCalls

\* C7: the first teardown of a FitLoop with max_epochs = M >= 1, reached by run()
\* with no stop request honoured and max_steps not reached, comes after exactly M
\* advance() calls and leaves current_epoch == M - 1
C7_EpochsRun ==
    [][(/\ op' = << "fit", "on_run_end" >>
        /\ ~teardown_already_run
        /\ max_epochs # None /\ Val(max_epochs) >= 1
        /\ ~should_stop
        /\ ~(max_steps # None /\ global_step >= Val(max_steps)))
       => /\ calls["fit"].advance = Val(max_epochs)
          /\ calls["fit"].on_advance_start = Val(max_epochs)
          /\ current_epoch' = Val(max_epochs) - 1]_vars

C7_Witness ==
    /\ op = << "fit", "on_run_end" >>
    /\ args.min_epochs = Some(1)
    /\ args.max_epochs = Some(2)
    /\ calls["fit"].advance = 2
    /\ current_epoch = 1
    /\ runs = 1
    /\ ~should_stop
    /\ num_training_batches >= 1
    /\ iter_effects.epoch_metrics = 1
    /\ epoch_output # None

\* the dataloader of the current run yields at least n batches that are not None
YieldsAtLeast(n) ==
    /\ Len(run_args.dataloader) >= n
    /\ \A i \in 1..n : run_args.dataloader[i] # "None"

\* C8: EvaluationLoop.run with dl_max_batches = N over a dataloader that yields at
\* least N batches calls advance() N times and ends with iteration_count == N;
\* under the append policy outputs holds the N step outputs in batch order and
\* is the value returned
C8_EvaluationBatches ==
    pc["eval"] = "returned" /\ YieldsAtLeast(run_args.dl_max_batches) =>
        LET N == run_args.dl_max_batches
        IN  /\ calls["eval"].advance = N
            /\ iteration_count["eval"] = N
            /\ it_pos = N
            /\ result["eval"] = Some(outputs)
            /\ policy = "append" =>
                  /\ Len(outputs) = N
                  /\ \A i \in 1..N :
                        /\ outputs[i].kwargs[1] = << "batch", run_args.dataloader[i] >>
                        /\ outputs[i].kwargs[2] = << "batch_idx", i - 1 >>

C8_Witness ==
    /\ pc["eval"] = "returned"
    /\ run_args.dl_max_batches = 2
    /\ YieldsAtLeast(2)
    /\ policy = "append"
    /\ Len(outputs) = 2
    /\ calls["eval"].advance = 2

\* C9: the constructor's defaults: max_epochs is 1000 when max_epochs and
\* max_steps are both None and the argument otherwise; min_epochs is 1 when
\* min_epochs and min_steps are both None and the argument otherwise; min_steps
\* and max_steps reach the training loop unchanged
C9_Defaults ==
    /\ max_epochs = IF args.max_epochs = None /\ args.max_steps = None
                    THEN Some(1000) ELSE args.max_epochs
    /\ min_epochs = IF args.min_epochs = None /\ args.min_steps = None
                    THEN Some(1) ELSE args.min_epochs
    /\ min_steps = args.min_steps
    /\ max_steps = args.max_steps

C9_Witness ==
    /\ args.max_epochs = None /\ args.max_steps = None
    /\ args.min_epochs = None /\ args.min_steps # None
    /\ max_epochs = Some(1000)
    /\ min_epochs = None
    /\ calls["fit"].advance = 1

\* C10: the kwargs of every step call hold batch and batch_idx, in that order,
\* followed by dataloader_idx (the run's) exactly when num_dataloaders > 1,
\* in testing and in validation mode
C10_StepKwargs ==
    step_kwargs # << >> =>
        /\ Len(step_kwargs) \in {2, 3}
        /\ step_kwargs[1][1] = "batch"
        /\ step_kwargs[2][1] = "batch_idx"
        /\ step_kwargs[2][2] \in 0..(it_pos - 1)
        /\ step_kwargs[1][2] = run_args.dataloader[step_kwargs[2][2] + 1]
        /\ Len(step_kwargs) = 3 <=> run_args.num_dataloaders > 1
        /\ Len(step_kwargs) = 3 =>
              step_kwargs[3] = << "dataloader_idx", run_args.dataloader_idx >>

C10_Witness ==
    /\ ~testing
    /\ run_args.num_dataloaders = 2
    /\ run_args.dataloader_idx = 1
    /\ step_kwargs = << << "batch", "x" >>, << "batch_idx", 1 >>, << "dataloader_idx", 1 >> >>

\* the step evaluates the done property of some loop
DoneStep == Len(op') = 3

\* the previous step and this one both evaluate FitLoop.done
ConsecutiveFitDone == Len(op) = 3 /\ op[1] \in {"fit", "driver"} /\ FitDoneStep

\* C11 as stated: evaluating done changes no loop or trainer state, not
\* trainer.should_stop either
C11_Original == [][DoneStep => UNCHANGED hookVars]_vars

\* C11 (amended): evaluating done changes no loop or trainer state except that
\* FitLoop.done resets trainer.should_stop to False when it is set while a
\* non-zero minimum is not reached; two consecutive evaluations of FitLoop.done
\* return the same value, and the second changes nothing
C11_DoneEffects ==
    [][DoneStep =>
          /\ UNCHANGED << iteration_count, fitVars, trainVars, num_training_batches,
                          has_trained, running_stage, ghostVars, evalVars >>
          /\ should_stop' # should_stop =>
                FitDoneStep /\ should_stop /\ MinUnmet /\ ~should_stop'
          /\ op'[1] \in {"train", "eval"} => UNCHANGED hookVars
          /\ ConsecutiveFitDone =>
                done_value'["fit"] = done_value["fit"] /\ UNCHANGED hookVars]_vars

C11_Witness ==
    /\ op = << "driver", "done", TRUE >>
    /\ done_value["fit"] = Some(TRUE)
    /\ ~should_stop
    /\ min_steps = Some(1)
    /\ global_step = 0

\* FitLoop.done as a loop constructed with the same bounds and not run before
\* would evaluate it: no epoch and no optimizer step counted yet
FreshFitLoop_done ==
    LET met_min_epochs == IF Truthy(min_epochs) THEN 0 >= Val(min_epochs) ELSE TRUE
        met_min_steps == IF Truthy(min_steps) THEN 0 >= Val(min_steps) ELSE TRUE
    IN  \/ (max_steps # None /\ 0 >= Val(max_steps))
        \/ (should_stop /\ met_min_epochs /\ met_min_steps)
        \/ (max_epochs # None /\ 0 >= Val(max_epochs))

\* the step is the first done check of a run() of loop l
FirstCheck(l) == op' = << l, "done", Notice(l) >> /\ calls[l].on_advance_start = 0

\* what reset() of loop l leaves
AfterReset(l) ==
    /\ iteration_count[l] = 0
    /\ l = "eval" =>
          /\ outputs = << >>
          /\ predictions = Some(<< >>)
          /\ dl_max_batches = None /\ dataloader_idx = None /\ num_dataloaders = None
    /\ l = "fit" => current_epoch = 0

\* C12 as stated: after reset() the per-run state is fresh and the done check
\* that follows depends on freshly initialised state only: it returns what it
\* would return in a loop that has not run before
C12_Original ==
    /\ [](\A l \in Loops : op = << l, "reset" >> => AfterReset(l))
    /\ [][FirstCheck("fit") => done_value'["fit"] = Some(FreshFitLoop_done)]_vars

\* C12 (amended): after reset() iteration_count == 0 and the loop's own per-run
\* fields are fresh (EvaluationLoop: empty outputs, new prediction collection,
\* cleared dl_max_batches, dataloader_idx and num_dataloaders; FitLoop:
\* current_epoch == 0); EvaluationLoop.done of that run reads this run's
\* dl_max_batches only, while FitLoop.done still reads global_step, which
\* reset() leaves as the previous run left it
C12_FreshAfterReset ==
    /\ [](\A l \in Loops : op = << l, "reset" >> => AfterReset(l))
    /\ [][(\E l \in Loops : op' = << l, "reset" >>) =>
             UNCHANGED << global_step, should_stop, teardown_already_run >>]_vars
    /\ [][FirstCheck("eval") =>
             done_value'["eval"] = Some(0 >= run_args.dl_max_batches)]_vars

C12_Witness ==
    /\ op = << "fit", "reset" >>
    /\ runs = 2
    /\ global_step >= 1
    /\ current_epoch = 0

\* the step is a hook or collaborator of loop op'[1] raising op'[4] inside op'[2]
RaiseStep == Len(op') = 4

\* a run() that an exception has left makes no further call
Aborted(l) == pc[l] \in Exceptions => calls'[l] = calls[l] /\ pc'[l] \in {pc[l], "idle"}

C14_CheckpointCallbacks ==
    LET c == checkpoint_check
        n == Len(c.callbacks)
    IN  op = << "fit", "check_checkpoint_callback" >> =>
          /\ ~(c.should_update /\ has_trained) => c.invoked = << >> /\ c.info = 0
          /\ (c.should_update /\ has_trained) =>
                /\ Len(c.invoked) = n
                /\ \A i \in 1..n : c.invoked[i] = << c.callbacks[i].name, "on_validation_end" >>
          /\ c.invoked = FitLoop_check_checkpoint_callback_calls(
                             c.should_update, ~c.is_last, c.callbacks).invoked
          /\ c.info = 1 => c.is_last

C14_Witness ==
    /\ op = << "fit", "check_checkpoint_callback" >>
    /\ has_trained
    /\ checkpoint_check.should_update
    /\ ~checkpoint_check.is_last
    /\ Len(checkpoint_check.callbacks) = 2
    /\ checkpoint_check.callbacks[1].name = "b"
    /\ checkpoint_check.callbacks[2].name = "a"
    /\ checkpoint_check.invoked = << << "b", "on_validation_end" >>, << "a", "on_validation_end" >> >>

\* the step calls a collaborator between global_step -= 1 and global_step += 1
ShimStep ==
    \/ op' = << "fit", "advance_return" >> /\ result["train"] # None
    \/ /\ op' = << "fit", "on_advance_end" >>
       /\ batches_seen # 0 /\ iter_effects'.did_train_only /\ has_trained
    \/ /\ op' \in {<< "fit", "on_run_end" >>, << "driver", "on_run_end" >>}
       /\ ~teardown_already_run /\ has_trained

C16_AdvanceShim ==
    [][op' = << "fit", "advance_return" >> =>
          /\ epoch_output' = result["train"]
          /\ pc'["fit"] = "on_advance_end"
          /\ IF result["train"] = None
             THEN /\ iter_effects'.epoch_metrics = 0
                  /\ UNCHANGED << global_step, observed_step >>
             ELSE /\ iter_effects'.epoch_metrics = 1
                  /\ observed_step' = Some(global_step - 1)
                  /\ global_step' = global_step]_vars

C16_Witness ==
    /\ op = << "fit", "advance_return" >>
    /\ epoch_output # None
    /\ iter_effects.epoch_metrics = 1
    /\ batches_seen = 1
    /\ global_step = 1
    /\ observed_step = Some(0)

\* C17: FitLoop.on_advance_end does nothing after an epoch of zero batches;
\* otherwise it updates the epoch lr schedulers once and checks the checkpoint
\* callbacks exactly when validation was skipped, the callbacks seeing
\* global_step one smaller, and global_step is back at its value afterwards
C17_OnAdvanceEnd ==
    [][op' = << "fit", "on_advance_end" >> =>
          IF batches_seen = 0
          THEN UNCHANGED hookVars
          ELSE /\ iter_effects'.lr_schedulers = 1
               /\ iter_effects'.checkpoint_check =
                     IF iter_effects'.did_train_only THEN 1 ELSE 0
               /\ IF iter_effects'.did_train_only /\ has_trained
                  THEN observed_step' = Some(global_step - 1)
                  ELSE observed_step' = observed_step
               /\ global_step' = global_step
               /\ UNCHANGED << iteration_count, fitVars, trainerVars, effects >>]_vars

C17_Witness ==
    /\ op = << "fit", "on_advance_end" >>
    /\ batches_seen = 1
    /\ iter_effects.did_train_only
    /\ iter_effects.lr_schedulers = 1
    /\ iter_effects.checkpoint_check = 1
    /\ global_step = 2
    /\ observed_step = Some(1)

\* the step is a done check of the FitLoop's epoch loop
EpochLoopCheck == Len(op') = 3 /\ op'[1] = "fit" /\ op'[2] = "done"

\* the FitLoop is in the middle of an iteration of its epoch loop
MidEpoch(p) == p \in {"on_advance_start", "advance", "in_advance", "on_advance_end", "increment"}

\* C18: whenever and however often trainer.should_stop is requested, the epoch
\* loop ends before max_epochs or max_steps is reached only at a done check that
\* finds should_stop set and every set minimum reached; a request checked while
\* a minimum is not reached does not end the run (the check returns whether a
\* maximum is reached) and is cleared; between two done checks the iteration
\* runs to its end whatever the flag is
C18_MinimumDuration ==
    /\ [][EpochLoopCheck =>
            /\ (done_value'["fit"] = Some(TRUE) /\ ~MaxReached) =>
                  should_stop /\ ~SetMinUnmet /\ should_stop'
            /\ (should_stop /\ SetMinUnmet) =>
                  /\ done_value'["fit"] = Some(MaxReached)
                  /\ ~MaxReached => pc'["fit"] = "on_advance_start"
                  /\ ~should_stop']_vars
    /\ [][/\ MidEpoch(pc["fit"]) => MidEpoch(pc'["fit"]) \/ pc'["fit"] = "while"
          /\ should_stop' # should_stop =>
                \/ op' = << "trainer", "should_stop" >>
                \/ Len(op') = 3 /\ op'[1] = "fit"]_vars

C18_Witness ==
    /\ op = << "fit", "done", FALSE >>
    /\ pc["fit"] = "on_run_end"
    /\ should_stop
    /\ current_epoch = 1
    /\ min_epochs = Some(1)
    /\ max_epochs = Some(2)
    /\ calls["fit"].advance = 1

\* C19: with max_epochs set, a FitLoop.run() never makes more than max_epochs
\* advance() calls; every done check of the epoch loop finds
\* 0 <= current_epoch <= max_epochs, and the check that finds max_epochs reached
\* ends the loop, whatever the child returned and whatever should_stop is
C19_TerminationBound ==
    /\ [](max_epochs # None => calls["fit"].advance <= Val(max_epochs))
    /\ [][EpochLoopCheck /\ max_epochs # None =>
            /\ 0 <= current_epoch /\ current_epoch <= Val(max_epochs)
            /\ current_epoch = calls["fit"].advance
            /\ current_epoch = Val(max_epochs) =>
                  done_value'["fit"] = Some(TRUE) /\ pc'["fit"] = "on_run_end"]_vars

C19_Witness ==
    /\ op = << "fit", "done", TRUE >>
    /\ pc["fit"] = "on_run_end"
    /\ calls["fit"].advance = 2
    /\ max_epochs = Some(2)
    /\ args.min_steps = Some(1)
    /\ global_step = 0
    /\ epoch_output = None

\* C20 as stated: every run() that is not skipped and executes k >= 1 epochs
\* returns with current_epoch == k - 1
C20_Original ==
    (op = << "fit", "on_run_end" >> /\ calls["fit"].increment_iteration >= 1) =>
        current_epoch = calls["fit"].increment_iteration - 1

\* C20 (amended): the end-of-run decrement is applied by the first on_run_end()
\* of a FitLoop instance only: a run() of k >= 1 epochs returns with
\* current_epoch == k - 1 if its on_run_end() is that first call, and with
\* current_epoch == k if the teardown has run before
C20_EndOfRunCompensation ==
    [][(op' = << "fit", "on_run_end" >> /\ calls["fit"].increment_iteration >= 1) =>
          /\ current_epoch = calls["fit"].increment_iteration
          /\ current_epoch' = IF teardown_already_run THEN current_epoch
                              ELSE current_epoch - 1]_vars

C20_Witness ==
    /\ op = << "fit", "on_run_end" >>
    /\ runs = 2
    /\ calls["fit"].increment_iteration = 2
    /\ current_epoch = 2
    /\ effects.epoch_decrement = 1
====
